---- MODULE Spec2Model ----
(***************************************************************************)
(* papyrus-lite: the link engine (src/src/LinkProcessor.js) over the data   *)
(* store (DataManager) and a file system.                                   *)
(*                                                                          *)
(* Text is a sequence of symbols.  A symbol is one character ("{", "}",     *)
(* "$", " ", "/", ".", a letter) or an atom standing for a run of           *)
(* characters that no operation of the program splits (a file extension     *)
(* such as "md", the fixed wording of an error message).  Atoms contain     *)
(* none of the characters "{", "}", "$", "/", "." and no white space at     *)
(* their ends unless stated.  The names of files and directories are       *)
(* spelled one character per symbol, so that a prefix test on a path sees   *)
(* what the program's test on the string sees.                              *)
(***************************************************************************)
EXTENDS Integers, Sequences, FiniteSets, TLC

(***************************************************************************)
(* String primitives of JavaScript.                                         *)
(***************************************************************************)

\* The one element of a singleton set.  An operator that walks a text binds
\* its arguments through a singleton, { body : s \in {str} }, so that each
\* argument is evaluated once, as a call in the program evaluates it.
Once(S) == CHOOSE v \in S : TRUE

\* s.startsWith(p) at 1-based position i
MatchesAt(s, p, i) ==
  /\ i >= 1
  /\ i + Len(p) - 1 <= Len(s)
  /\ \A k \in 1..Len(p) : s[i + k - 1] = p[k]

startsWith(s, p) == MatchesAt(s, p, 1)

endsWith(s, p) == Len(p) <= Len(s) /\ MatchesAt(s, p, Len(s) - Len(p) + 1)

\* s.indexOf(p), 1-based; 0 when p does not occur
indexOf(s, p) ==
  LET hits == {i \in 1..(Len(s) + 1) : MatchesAt(s, p, i)}
  IN IF hits = {} THEN 0 ELSE CHOOSE i \in hits : \A j \in hits : i <= j

WhiteSpace == {" ", "\n"}

RECURSIVE trimStart(_)
trimStart(str) ==
  Once({ IF s # <<>> /\ Head(s) \in WhiteSpace THEN trimStart(Tail(s)) ELSE s
         : s \in {str} })

RECURSIVE trimEnd(_)
trimEnd(str) ==
  Once({ IF s # <<>> /\ s[Len(s)] \in WhiteSpace
         THEN trimEnd(SubSeq(s, 1, Len(s) - 1))
         ELSE s
         : s \in {str} })

trim(s) == trimEnd(trimStart(s))

toLowerCase(s) ==
  [k \in 1..Len(s) |-> IF s[k] = "MD" THEN "md"
                       ELSE IF s[k] = "TXT" THEN "txt"
                       ELSE s[k]]

\* GetSubstitution of String.prototype.replace for a string pattern (no
\* capture groups): $$ is "$", $& the match, $` the text before it, $' the
\* text after it; any other "$" stands for itself.  The back quote is the
\* symbol "bq" and the apostrophe the symbol "sq".
RECURSIVE GetSubstitution(_, _, _, _)
GetSubstitution(replacement, matched, before, after) ==
  Once({ IF rep = <<>> THEN <<>>
         ELSE IF Head(rep) = "$" /\ Len(rep) >= 2
                 /\ rep[2] \in {"$", "&", "bq", "sq"}
         THEN (CASE rep[2] = "$" -> <<"$">>
                 [] rep[2] = "&" -> matched
                 [] rep[2] = "bq" -> before
                 [] rep[2] = "sq" -> after)
              \o GetSubstitution(SubSeq(rep, 3, Len(rep)), matched, before, after)
         ELSE <<Head(rep)>> \o GetSubstitution(Tail(rep), matched, before, after)
         : rep \in {replacement} })

\* A mutation of replace: every occurrence is left alone (the splice is lost).
replaceNothing(s, pat, rep) == s

\* s.replace(pat, rep) with a string pattern: the FIRST occurrence only
replace(str, pattern, replacement) ==
  Once({ IF p = 0 THEN s
         ELSE Once({ before \o GetSubstitution(rep, pat, before, after) \o after
                     : before \in {SubSeq(s, 1, p - 1)},
                       after  \in {SubSeq(s, p + Len(pat), Len(s))} })
         : <<s, pat, rep, p>> \in
             { <<s1, pat1, rep1, indexOf(s1, pat1)>>
               : s1 \in {str}, pat1 \in {pattern}, rep1 \in {replacement} } })

(***************************************************************************)
(* The marker scan: /\{\{([^}]+)\}\}/g                                      *)
(***************************************************************************)

\* position of the first "}" at or after i, 0 when there is none
FirstClose(s, i) ==
  LET hits == {j \in i..Len(s) : s[j] = "}"}
  IN IF hits = {} THEN 0 ELSE CHOOSE j \in hits : \A k \in hits : j <= k

\* The regular expression matched at position i: "{{", one or more
\* characters other than "}", then "}}".  Returns the position of the last
\* character of the match, 0 when the expression does not match at i.
MatchEnd(s, i) ==
  IF i + 1 <= Len(s) /\ s[i] = "{" /\ s[i + 1] = "{"
  THEN LET j == FirstClose(s, i + 2)
       IN IF j >= i + 3 /\ j + 1 <= Len(s) /\ s[j + 1] = "}" THEN j + 1 ELSE 0
  ELSE 0

\* content.matchAll(linkPattern) and the exec loop of extractLinks:
\* the matches from position i on, left to right, without overlap
RECURSIVE matchAll(_, _)
matchAll(str, from) ==
  Once({ IF i > Len(s) THEN <<>>
         ELSE Once({ IF e = 0 THEN matchAll(s, i + 1)
                     ELSE <<[full    |-> SubSeq(s, i, e),
                             content |-> trim(SubSeq(s, i + 2, e - 2)),
                             index   |-> i - 1]>>
                          \o matchAll(s, e + 1)
                     : e \in {MatchEnd(s, i)} })
         : s \in {str}, i \in {from} })

\* A mutation of the scan: it starts at the second character.
extractLinksLate(content) == matchAll(content, 2)

extractLinks(content) == matchAll(content, 1)

(***************************************************************************)
(* Node's path module (POSIX).                                              *)
(***************************************************************************)

\* process.cwd() of the server
Cwd == <<"/", "w">>

isAbsolute(p) == p # <<>> /\ p[1] = "/"

\* p.split("/")
RECURSIVE Split(_)
Split(path) ==
  Once({ Once({ IF i = 0 THEN <<p>>
                ELSE <<SubSeq(p, 1, i - 1)>> \o Split(SubSeq(p, i + 1, Len(p)))
                : i \in {indexOf(p, <<"/">>)} })
         : p \in {path} })

\* normalizeString of an absolute path: "" and "." segments dropped, ".."
\* removes the segment before it (and stays at "/" when there is none)
RECURSIVE NormalizeSegments(_, _)
NormalizeSegments(segments, done) ==
  Once({ IF segs = <<>> THEN acc
         ELSE LET s == Head(segs)
              IN IF s = <<>> \/ s = <<".">> THEN NormalizeSegments(Tail(segs), acc)
                 ELSE IF s = <<".", ".">>
                 THEN NormalizeSegments(Tail(segs),
                        IF acc = <<>> THEN acc ELSE SubSeq(acc, 1, Len(acc) - 1))
                 ELSE NormalizeSegments(Tail(segs), Append(acc, s))
         : segs \in {segments}, acc \in {done} })

RECURSIVE JoinSegments(_)
JoinSegments(segments) ==
  Once({ IF segs = <<>> THEN <<>>
         ELSE <<"/">> \o Head(segs) \o JoinSegments(Tail(segs))
         : segs \in {segments} })

Normalize(p) ==
  Once({ IF segs = <<>> THEN <<"/">> ELSE JoinSegments(segs)
         : segs \in {NormalizeSegments(Split(p), <<>>)} })

\* path.resolve(a, b): the rightmost absolute argument wins, the working
\* directory is prepended when neither is absolute; the result is normalized
resolve2(a, b) ==
  IF isAbsolute(b) THEN Normalize(b)
  ELSE IF isAbsolute(a) THEN Normalize(a \o <<"/">> \o b)
  ELSE Normalize(Cwd \o <<"/">> \o a \o <<"/">> \o b)

\* path.resolve(a)
resolve1(a) == resolve2(a, <<>>)

\* path.join(dir, file) for an absolute dir
join(dir, file) == Normalize(dir \o <<"/">> \o file)

\* last segment of a path
basename(p) ==
  Once({ IF segs = <<>> THEN <<>> ELSE segs[Len(segs)]
         : segs \in {NormalizeSegments(Split(p), <<>>)} })

\* path.extname(p): from the last "." of the base name, "" when there is
\* none or when the base name starts with its only "."
extname(p) ==
  Once({ LET dots == {i \in 1..Len(b) : b[i] = "."}
             last == CHOOSE i \in dots : \A j \in dots : j <= i
         IN IF dots = {} \/ last = 1 \/ b = <<".", ".">> THEN <<>>
            ELSE SubSeq(b, last, Len(b))
         : b \in {basename(p)} })

(***************************************************************************)
(* The file system the server runs on (fs-extra).                           *)
(***************************************************************************)

Marker(ref) == <<"{", "{">> \o ref \o <<"}", "}">>

\* directories, each with its entries in the order readdir returns them
FsDirs ==
  ( <<"/">>                :> << <<"r">>, <<"r", "x">>, <<"w">>, <<"s", ".", "md">> >> ) @@
  ( <<"/", "r">>           :> << <<"u", ".", "txt">>, <<"d">>, <<"b", ".", "png">>,
                                 <<"a", ".", "md">>, <<"e">> >> ) @@
  ( <<"/", "r", "/", "d">> :> << <<"b", ".", "txt">>, <<"c", ".", "png">>,
                                 <<"a", ".", "MD">> >> ) @@
  ( <<"/", "r", "/", "e">> :> << <<"c", ".", "png">> >> ) @@
  ( <<"/", "r", "x">>          :> << <<"s", ".", "md">> >> ) @@
  ( <<"/", "w">>           :> << >> )

\* regular files: content, and whether the server may read them
FsFiles ==
  ( <<"/", "s", ".", "md">>                :> [content |-> <<"top">>, readable |-> TRUE] ) @@
  ( <<"/", "r", "x", "/", "s", ".", "md">>     :> [content |-> <<"secret">>, readable |-> TRUE] ) @@
  ( <<"/", "r", "/", "a", ".", "md">>      :> [content |-> <<"f">> \o Marker(<<"A">>), readable |-> TRUE] ) @@
  ( <<"/", "r", "/", "b", ".", "png">>     :> [content |-> <<"img">>, readable |-> TRUE] ) @@
  ( <<"/", "r", "/", "u", ".", "txt">>     :> [content |-> <<"no">>, readable |-> FALSE] ) @@
  ( <<"/", "r", "/", "d", "/", "b", ".", "txt">> :> [content |-> <<"bb">>, readable |-> TRUE] ) @@
  ( <<"/", "r", "/", "d", "/", "a", ".", "MD">>  :> [content |-> Marker(<<"B">>), readable |-> TRUE] ) @@
  ( <<"/", "r", "/", "d", "/", "c", ".", "png">> :> [content |-> <<"img">>, readable |-> TRUE] ) @@
  ( <<"/", "r", "/", "e", "/", "c", ".", "png">> :> [content |-> <<"img">>, readable |-> TRUE] )

\* fs.pathExists(p)
pathExists(p) == Normalize(p) \in (DOMAIN FsDirs) \cup (DOMAIN FsFiles)

\* (await fs.stat(p)).isDirectory()
isDirectory(p) == Normalize(p) \in DOMAIN FsDirs

\* fs.readdir(p)
readdir(p) == FsDirs[Normalize(p)]

\* fs.readFile(p, 'utf8'): the content, or the error it throws
readFile(p) ==
  Once({ IF q \in DOMAIN FsDirs
         THEN [ok |-> FALSE, content |-> <<>>,
               message |-> <<"EISDIR: illegal operation on a directory, read">>]
         ELSE IF ~FsFiles[q].readable
         THEN [ok |-> FALSE, content |-> <<>>,
               message |-> <<"EACCES: permission denied, open ">> \o q]
         ELSE [ok |-> TRUE, content |-> FsFiles[q].content, message |-> <<>>]
         : q \in {Normalize(p)} })

\* the order of Array.prototype.sort() on file names: by code unit
CodeUnit(c) ==
  CASE c = "." -> 46 [] c = "MD" -> 77 [] c = "TXT" -> 84
    [] c = "a" -> 97 [] c = "b" -> 98 [] c = "c" -> 99 [] c = "d" -> 100
    [] c = "e" -> 101 [] c = "md" -> 109 [] c = "png" -> 112 [] c = "r" -> 114
    [] c = "s" -> 115 [] c = "txt" -> 116 [] c = "u" -> 117 [] c = "w" -> 119
    [] OTHER -> 120

RECURSIVE LessThan(_, _)
LessThan(name1, name2) ==
  Once({ IF b = <<>> THEN FALSE
         ELSE IF a = <<>> THEN TRUE
         ELSE IF CodeUnit(Head(a)) # CodeUnit(Head(b))
         THEN CodeUnit(Head(a)) < CodeUnit(Head(b))
         ELSE LessThan(Tail(a), Tail(b))
         : a \in {name1}, b \in {name2} })

RECURSIVE Insert(_, _)
Insert(name, names) ==
  Once({ IF sorted = <<>> THEN <<x>>
         ELSE IF LessThan(Head(sorted), x)
         THEN <<Head(sorted)>> \o Insert(x, Tail(sorted))
         ELSE <<x>> \o sorted
         : x \in {name}, sorted \in {names} })

RECURSIVE sort(_)
sort(list) ==
  Once({ IF names = <<>> THEN <<>> ELSE Insert(Head(names), sort(Tail(names)))
         : names \in {list} })

(***************************************************************************)
(* The inputs: substitute mappings, root settings and texts.                *)
(***************************************************************************)

\* how many items (a literal, a marker, an unclosed "{{x") a request text
\* is concatenated from
MaxItems == 2

\* the frames the runtime's call stack holds; the engine needs at most
\* maxDepth + 3 (validateLinks, then processLinks at depths 0..maxDepth+1)
MaxStack == 14

A == <<"A">>
B == <<"B">>

Sub(k, v) == [key |-> k, value |-> v]

\* substitutes.json: the entries in insertion order
SubstitutePool ==
  { << >>,
    << Sub(A, <<"h">>) >>,
    << Sub(A, Marker(B)), Sub(B, Marker(A)) >>,
    << Sub(A, <<"x">> \o Marker(A)) >>,
    << Sub(A, Marker(B)), Sub(B, <<"h">>) >>,
    << Sub(A, <<"h", "$", "&">>), Sub(B, <<"$", "$", "k">>) >>,
    << Sub(A, Marker(<<"a", ".", "md">>)), Sub(B, << >>) >>,
    << Sub(<<"a", ".", "md">>, <<"h">>) >>,
    << Sub(<<"a", ".", "md">>, << >>) >> }

\* rootPath.json: "" is "not configured"
RootPool == { << >>, <<"/", "r">> }

CoreItems ==
  { <<"x">>,
    Marker(A),
    Marker(<<" ", "B", " ">>),
    Marker(<<"m", ".", "md">>),
    <<"{", "{", "x">> }

RECURSIVE ItemTexts(_)
ItemTexts(n) ==
  IF n = 0 THEN { << >> }
  ELSE LET shorter == ItemTexts(n - 1)
       IN shorter \cup { t \o i : t \in shorter, i \in CoreItems }

\* references to files and directories, inside and outside the root
FileRefs ==
  { <<"a", ".", "md">>,
    <<"b", ".", "png">>,
    <<"u", ".", "txt">>,
    <<"d">>,
    <<".", ".", "/", "s", ".", "md">>,
    <<".", ".", "/", "r", "x", "/", "s", ".", "md">>,
    <<"/", "r", "x", "/", "s", ".", "md">>,
    <<"/", "r", "/", ".", ".", "/", "s", ".", "md">>,
    <<"d", "/", "*">>,
    <<".", "/", "*">>,
    <<"e", "/", "*">>,
    <<"m", "/", "*">>,
    <<"a", ".", "md", "/", "*">>,
    <<".", ".", "/", "r", "x", "/", "*">>,
    <<".", ".", "/", "*">> }

Texts == ItemTexts(MaxItems) \cup { Marker(r) : r \in FileRefs }

(***************************************************************************)
(* State.                                                                   *)
(***************************************************************************)

VARIABLES
  substitutes,  \* DataManager.substitutes
  rootPath,     \* DataManager.rootPath
  input,        \* the content of the request being served
  op,           \* the operation requested: "idle" before the request
  outcome,      \* "idle", "running", "returned" or "threw"
  stack,        \* the frames of the calls in progress, innermost last
  result,       \* what the operation returned
  fsLog,        \* the file-system calls made, in order
  validated,    \* the normalized paths that passed the root check
  warnCount,    \* logger.warn calls
  returned,     \* the last return of a processLinks call
  started,      \* the substitutes in effect when the request started
  updates,      \* the updateSubstitutes events handled
  history,      \* DataManager.history
  deferred,     \* the callbacks scheduled with setImmediate, oldest first
  prompts,      \* DataManager.prompts
  currentData,  \* app.js: this.currentData of each connected client
  emitted,      \* the events the acting client has emitted, oldest first
  broadcast     \* the events broadcast to each client, oldest first

\* the state of the server outside the link processor
serverVars == <<started, updates, history, deferred>>

\* the prompts, and the clients with the events in flight
sessionVars == <<prompts, currentData, emitted, broadcast>>

vars == <<substitutes, rootPath, input, op, outcome, stack, result, fsLog,
          validated, warnCount, returned, started, updates, history, deferred,
          prompts, currentData, emitted, broadcast>>

\* this.maxDepth
maxDepth == 10

\* substitutes[key]: undefined when there is no such entry
HasKey(subs, key) == \E n \in 1..Len(subs) : subs[n].key = key

Lookup(subs, key) ==
  subs[CHOOSE n \in 1..Len(subs) : subs[n].key = key].value

\* if (substitutes[key]): the entry exists and is not the empty string
Truthy(subs, key) == HasKey(subs, key) /\ Lookup(subs, key) # << >>

\* DataManager.getSubstitutes(): a copy of the current mapping
getSubstitutes == substitutes

\* DataManager.getRootPath()
getRootPath == rootPath

Frame(kind, content, depth) ==
  [kind      |-> kind,
   content   |-> content,
   depth     |-> depth,
   phase     |-> "entry",
   processed |-> content,
   replaced  |-> << >>,
   matches   |-> << >>,
   i         |-> 1,
   path      |-> << >>,
   folder    |-> << >>,
   files     |-> << >>,
   k         |-> 1,
   combined  |-> << >>,
   results   |-> << >>,
   visited   |-> {},
   links     |-> << >>]

Top == stack[Len(stack)]

Pop(stk) == SubSeq(stk, 1, Len(stk) - 1)

SetTop(stk, f) == [stk EXCEPT ![Len(stk)] = f]

\* the link the loop of frame f is at
Link(f) == f.matches[f.i]

(***************************************************************************)
(* resolveLink and resolveFolderWildcard up to their first file-system      *)
(* call: what they do synchronously.                                        *)
(***************************************************************************)

Throw(message) ==
  [t |-> "throw", message |-> message, phase |-> "loop",
   path |-> << >>, folder |-> << >>, normalized |-> << >>]

Await(phase, path, folder, normalized) ==
  [t |-> "await", message |-> << >>, phase |-> phase,
   path |-> path, folder |-> folder, normalized |-> normalized]

CallProcessLinks ==
  [t |-> "substitute", message |-> << >>, phase |-> "call",
   path |-> << >>, folder |-> << >>, normalized |-> << >>]

RootNotSet == <<"Root path not set. Use /root command to set the root directory.">>

\* A mutation of the root check: the check is skipped.
WithinRootAlways(normalizedPath, normalizedRoot) == TRUE

\* the security check: normalizedFile.startsWith(normalizedRoot)
WithinRoot(normalizedPath, normalizedRoot) ==
  startsWith(normalizedPath, normalizedRoot)

\* A mutation of the substitute test: no reference names a substitute.
NoSubstitute(linkContent) == FALSE

\* the substitute test of resolveLink
IsSubstitute(linkContent) == Truthy(getSubstitutes, linkContent)

IsWildcard(linkContent) == endsWith(linkContent, <<"/", "*">>)

resolveFolderWildcard(linkContent) ==
  LET folderPath       == SubSeq(linkContent, 1, Len(linkContent) - 2)
      rootP            == getRootPath
      fullFolderPath   == IF isAbsolute(folderPath) THEN folderPath
                          ELSE resolve2(rootP, folderPath)
      normalizedRoot   == resolve1(rootP)
      normalizedFolder == resolve1(fullFolderPath)
  IN IF rootP = << >> THEN Throw(RootNotSet)
     ELSE IF ~WithinRoot(normalizedFolder, normalizedRoot)
     THEN Throw(<<"Folder path outside root directory: ">> \o folderPath)
     ELSE Await("folderExists", fullFolderPath, folderPath, normalizedFolder)

resolveLink(linkContent) ==
  LET rootP          == getRootPath
      filePath       == IF isAbsolute(linkContent) THEN linkContent
                        ELSE resolve2(rootP, linkContent)
      normalizedRoot == resolve1(rootP)
      normalizedFile == resolve1(filePath)
  IN IF IsSubstitute(linkContent) THEN CallProcessLinks
     ELSE IF IsWildcard(linkContent) THEN resolveFolderWildcard(linkContent)
     ELSE IF rootP = << >> THEN Throw(RootNotSet)
     ELSE IF ~WithinRoot(normalizedFile, normalizedRoot)
     THEN Throw(<<"File path outside root directory: ">> \o linkContent)
     ELSE Await("pathExists", filePath, << >>, normalizedFile)

SupportedExt(ext) == ext \in { <<".", "md">>, <<".", "txt">> }

\* the depth processLinks passes to resolveLink, validateLinks passes 0
ChildDepth(f) == IF f.kind = "processLinks" THEN f.depth + 1 ELSE 0

\* A mutation of the depth check: the recursion is never cut.
DepthNeverExceeded(depth) == FALSE

\* A mutation of the depth check: the cut comes one call later.
DepthExceededLate(depth) == depth > maxDepth + 1

\* if (depth > this.maxDepth)
DepthExceeded(depth) == depth > maxDepth

\* A mutation of the error replacement: the marker alone, no annotation.
errorReplacementBare(linkContent, message) == Marker(linkContent)

\* `{{${linkContent}}} [ERROR: ${error.message}]`
errorReplacement(linkContent, message) ==
  Marker(linkContent) \o <<" [ERROR: ">> \o message \o <<"]">>

\* resolveLink returned value to the loop of frame f
Resolved(f, value) ==
  IF f.kind = "processLinks"
  THEN [f EXCEPT !.processed = replace(f.processed, Link(f).full, value),
                 !.replaced = Append(f.replaced, value),
                 !.i = f.i + 1, !.phase = "loop"]
  ELSE [f EXCEPT !.results = Append(f.results,
                   [link |-> Link(f).content, valid |-> TRUE, error |-> << >>]),
                 !.i = f.i + 1, !.phase = "loop"]

\* resolveLink threw: the catch block of the loop of frame f
Caught(f, message) ==
  IF f.kind = "processLinks"
  THEN [f EXCEPT !.processed = replace(f.processed, Link(f).full,
                                 errorReplacement(Link(f).content, message)),
                 !.replaced = Append(f.replaced,
                                errorReplacement(Link(f).content, message)),
                 !.i = f.i + 1, !.phase = "loop"]
  ELSE [f EXCEPT !.results = Append(f.results,
                   [link |-> Link(f).content, valid |-> FALSE, error |-> message]),
                 !.i = f.i + 1, !.phase = "loop"]

\* A mutation of the catch block: the error is thrown on to the caller.
Uncaught(message) ==
  /\ stack' = << >>
  /\ result' = message
  /\ outcome' = "threw"

\* try { await this.resolveLink(...) } catch (error) { ... } in the loop of
\* the frame that called resolveLink
Catch(message) ==
  /\ stack' = SetTop(stack, Caught(Top, message))
  /\ UNCHANGED <<result, outcome>>

\* before any processLinks call has returned
NoReturn == [depth |-> -1, content |-> << >>, value |-> << >>, scanned |-> FALSE]

\* A mutation of the depth cut: the content is dropped.
AtLimitEmpty(content) == << >>

\* what processLinks returns past the depth limit: return content
AtLimit(content) == content

\* a processLinks call returns value to the frames below it
ReturnValue(below, value) ==
  IF below = << >>
  THEN /\ stack' = << >>
       /\ result' = value
       /\ outcome' = "returned"
  ELSE /\ stack' = SetTop(below, Resolved(below[Len(below)], value))
       /\ UNCHANGED <<result, outcome>>

Logged(fn, path) == Append(fsLog, [fn |-> fn, path |-> path])

(***************************************************************************)
(* The requests.                                                            *)
(***************************************************************************)

\* no request started, no event handled, an empty history.json
ServerIdle ==
  /\ started = << >>
  /\ updates = 0
  /\ history = << >>
  /\ deferred = << >>

\* the client that runs app.js, and another connected client
Clients == {"app", "other"}

\* server.js: socket.emit('init', ...): what a client holds once connected
InitialData == [prompts |-> prompts, substitutes |-> substitutes]

\* no prompts stored, the clients connected, no event in flight
SessionIdle ==
  /\ prompts = << >>
  /\ currentData = [c \in Clients |-> InitialData]
  /\ emitted = << >>
  /\ broadcast = [c \in Clients |-> << >>]

Init ==
  /\ substitutes \in SubstitutePool
  /\ rootPath \in RootPool
  /\ input \in Texts
  /\ op = "idle"
  /\ outcome = "idle"
  /\ stack = << >>
  /\ result = << >>
  /\ fsLog = << >>
  /\ validated = {}
  /\ warnCount = 0
  /\ returned = NoReturn
  /\ ServerIdle
  /\ SessionIdle

\* server.js: socket.on('processLinks'): linkProcessor.processLinks(content)
RequestProcessLinks ==
  /\ op = "idle"
  /\ op' = "processLinks"
  /\ outcome' = "running"
  /\ stack' = << Frame("processLinks", input, 0) >>
  /\ UNCHANGED <<substitutes, rootPath, input, result, fsLog, validated, warnCount, returned>>
  /\ started' = substitutes
  /\ UNCHANGED <<updates, history, deferred>>
  /\ UNCHANGED sessionVars

\* validateLinks(content): the links are extracted, then resolved one by one
RequestValidateLinks ==
  /\ op = "idle"
  /\ op' = "validateLinks"
  /\ outcome' = "running"
  /\ stack' = << [Frame("validateLinks", input, 0) EXCEPT
                    !.matches = extractLinks(input), !.phase = "loop"] >>
  /\ UNCHANGED <<substitutes, rootPath, input, result, fsLog, validated, warnCount, returned>>
  /\ started' = substitutes
  /\ UNCHANGED <<updates, history, deferred>>
  /\ UNCHANGED sessionVars

(***************************************************************************)
(* processLinks, one step per call, return and file-system call.            *)
(***************************************************************************)

\* A mutation of the scan: the text being built starts empty.
processedContentEmpty(content) == << >>

\* let processedContent = content: the text the replacements are made in
processedContent(content) == content

\* processLinks is entered: the depth check, then the scan
processLinksEnter ==
  /\ stack # << >>
  /\ Top.kind = "processLinks"
  /\ Top.phase = "entry"
  /\ IF DepthExceeded(Top.depth)
     THEN /\ warnCount' = warnCount + 1
          /\ returned' = [depth |-> Top.depth, content |-> Top.content,
                          value |-> AtLimit(Top.content), scanned |-> FALSE]
          /\ ReturnValue(Pop(stack), AtLimit(Top.content))
     ELSE /\ stack' = SetTop(stack, [Top EXCEPT !.processed = processedContent(Top.content),
                                                !.matches = matchAll(Top.content, 1),
                                                !.phase = "loop"])
          /\ UNCHANGED <<warnCount, result, outcome, returned>>
  /\ UNCHANGED <<substitutes, rootPath, input, op, fsLog, validated>>
  /\ UNCHANGED serverVars
  /\ UNCHANGED sessionVars

\* the loop calls resolveLink for the next match; resolveLink runs up to a
\* nested processLinks call, a throw or its first file-system call
resolveLinkCall ==
  /\ stack # << >>
  /\ Top.kind \in {"processLinks", "validateLinks"}
  /\ Top.phase = "loop"
  /\ Top.i <= Len(Top.matches)
  /\ LET linkContent == Link(Top).content
         r == resolveLink(linkContent)
     IN CASE r.t = "substitute" ->
               /\ Len(stack) < MaxStack
               /\ stack' = Append(SetTop(stack, [Top EXCEPT !.phase = "call"]),
                                  Frame("processLinks",
                                        Lookup(getSubstitutes, linkContent),
                                        ChildDepth(Top)))
               /\ UNCHANGED <<validated, result, outcome>>
          [] r.t = "throw" ->
               /\ Catch(r.message)
               /\ UNCHANGED validated
          [] r.t = "await" ->
               /\ stack' = SetTop(stack, [Top EXCEPT !.phase = r.phase,
                                                     !.path = r.path,
                                                     !.folder = r.folder])
               /\ validated' = validated \cup {r.normalized}
               /\ UNCHANGED <<result, outcome>>
  /\ UNCHANGED <<substitutes, rootPath, input, op, fsLog, warnCount, returned>>
  /\ UNCHANGED serverVars
  /\ UNCHANGED sessionVars

\* resolveLink: fs.pathExists(filePath), then the extension check
filePathExists ==
  /\ stack # << >>
  /\ Top.phase = "pathExists"
  /\ fsLog' = Logged("pathExists", Top.path)
  /\ LET ext == toLowerCase(extname(Top.path))
     IN IF ~pathExists(Top.path)
        THEN Catch(<<"File not found: ">> \o Link(Top).content)
        ELSE IF ~SupportedExt(ext)
        THEN Catch(<<"Unsupported file type: ">> \o ext
                   \o <<". Only .md and .txt files are supported.">>)
        ELSE /\ stack' = SetTop(stack, [Top EXCEPT !.phase = "readFile"])
             /\ UNCHANGED <<result, outcome>>
  /\ UNCHANGED <<substitutes, rootPath, input, op, validated, warnCount, returned>>
  /\ UNCHANGED serverVars
  /\ UNCHANGED sessionVars

\* resolveLink: fs.readFile(filePath), then processLinks on the content
fileRead ==
  /\ stack # << >>
  /\ Top.phase = "readFile"
  /\ fsLog' = Logged("readFile", Top.path)
  /\ LET r == readFile(Top.path)
     IN IF r.ok
        THEN /\ Len(stack) < MaxStack
             /\ stack' = Append(SetTop(stack, [Top EXCEPT !.phase = "call"]),
                                Frame("processLinks", r.content, ChildDepth(Top)))
             /\ UNCHANGED <<result, outcome>>
        ELSE Catch(<<"Failed to read file: ">> \o Link(Top).content
                   \o <<" - ">> \o r.message)
  /\ UNCHANGED <<substitutes, rootPath, input, op, validated, warnCount, returned>>
  /\ UNCHANGED serverVars
  /\ UNCHANGED sessionVars

\* resolveFolderWildcard: fs.pathExists(fullFolderPath)
folderExists ==
  /\ stack # << >>
  /\ Top.phase = "folderExists"
  /\ fsLog' = Logged("pathExists", Top.path)
  /\ IF ~pathExists(Top.path)
     THEN Catch(<<"Folder not found: ">> \o Top.folder)
     ELSE /\ stack' = SetTop(stack, [Top EXCEPT !.phase = "folderStat"])
          /\ UNCHANGED <<result, outcome>>
  /\ UNCHANGED <<substitutes, rootPath, input, op, validated, warnCount, returned>>
  /\ UNCHANGED serverVars
  /\ UNCHANGED sessionVars

\* resolveFolderWildcard: fs.stat(fullFolderPath).isDirectory()
folderStat ==
  /\ stack # << >>
  /\ Top.phase = "folderStat"
  /\ fsLog' = Logged("stat", Top.path)
  /\ IF ~isDirectory(Top.path)
     THEN Catch(<<"Path is not a directory: ">> \o Top.folder)
     ELSE /\ stack' = SetTop(stack, [Top EXCEPT !.phase = "readdir"])
          /\ UNCHANGED <<result, outcome>>
  /\ UNCHANGED <<substitutes, rootPath, input, op, validated, warnCount, returned>>
  /\ UNCHANGED serverVars
  /\ UNCHANGED sessionVars

\* A mutation of the listing: the filter without the sort.
supportedFilesUnsorted(files) ==
  SelectSeq(files, LAMBDA file : SupportedExt(toLowerCase(extname(file))))

\* files.filter(...).sort()
supportedFiles(files) ==
  sort(SelectSeq(files, LAMBDA file : SupportedExt(toLowerCase(extname(file)))))

\* resolveFolderWildcard: fs.readdir, the filter and the sort; the
\* placeholder is returned when no file qualifies
folderReaddir ==
  /\ stack # << >>
  /\ Top.phase = "readdir"
  /\ fsLog' = Logged("readdir", Top.path)
  /\ LET files == supportedFiles(readdir(Top.path))
     IN IF files = << >>
        THEN /\ warnCount' = warnCount + 1
             /\ stack' = SetTop(stack,
                  Resolved(Top, <<"[No supported files found in ">>
                                \o Top.folder \o <<"]">>))
        ELSE /\ stack' = SetTop(stack, [Top EXCEPT !.phase = "folderRead",
                                                   !.files = files,
                                                   !.k = 1,
                                                   !.combined = << >>])
             /\ UNCHANGED warnCount
  /\ UNCHANGED <<substitutes, rootPath, input, op, outcome, result, validated, returned>>
  /\ UNCHANGED serverVars
  /\ UNCHANGED sessionVars

\* `\n--- ${file} ---\n`
FileHeader(file) == <<"\n", "---", " ">> \o file \o <<" ", "---", "\n">>

\* A mutation of the section: a file that cannot be read is left out.
FileSectionIfRead(file, r) ==
  IF r.ok THEN FileHeader(file) \o r.content ELSE << >>

\* what the loop pushes on combinedContent for one file: the heading, then
\* the content or the note of the failure
FileSection(file, r) ==
  FileHeader(file) \o
  (IF r.ok THEN r.content
   ELSE <<"[ERROR: Failed to read file - ">> \o r.message \o <<"]", "\n">>)

\* resolveFolderWildcard: fs.readFile of the next supported file; after the
\* last one the combined content goes to processLinks
folderRead ==
  /\ stack # << >>
  /\ Top.phase = "folderRead"
  /\ LET file     == Top.files[Top.k]
         filePath == join(Top.path, file)
         r        == readFile(filePath)
         combined == Top.combined \o FileSection(file, r)
     IN /\ fsLog' = Logged("readFile", filePath)
        /\ IF Top.k < Len(Top.files)
           THEN stack' = SetTop(stack, [Top EXCEPT !.k = Top.k + 1,
                                                   !.combined = combined])
           ELSE /\ Len(stack) < MaxStack
                /\ stack' = Append(SetTop(stack, [Top EXCEPT !.phase = "call",
                                                             !.combined = combined]),
                                   Frame("processLinks", combined, ChildDepth(Top)))
  /\ UNCHANGED <<substitutes, rootPath, input, op, outcome, result, validated,
                 warnCount, returned>>
  /\ UNCHANGED serverVars
  /\ UNCHANGED sessionVars

\* processLinks has handled every match: return processed
processLinksReturn ==
  /\ stack # << >>
  /\ Top.kind = "processLinks"
  /\ Top.phase = "loop"
  /\ Top.i > Len(Top.matches)
  /\ returned' = [depth |-> Top.depth, content |-> Top.content,
                  value |-> Top.processed, scanned |-> TRUE]
  /\ ReturnValue(Pop(stack), Top.processed)
  /\ UNCHANGED <<substitutes, rootPath, input, op, fsLog, validated, warnCount>>
  /\ UNCHANGED serverVars
  /\ UNCHANGED sessionVars

\* validateLinks has handled every link: return results
validateLinksReturn ==
  /\ stack # << >>
  /\ Top.kind = "validateLinks"
  /\ Top.phase = "loop"
  /\ Top.i > Len(Top.matches)
  /\ stack' = << >>
  /\ result' = Top.results
  /\ outcome' = "returned"
  /\ UNCHANGED <<substitutes, rootPath, input, op, fsLog, validated, warnCount, returned>>
  /\ UNCHANGED serverVars
  /\ UNCHANGED sessionVars

(***************************************************************************)
(* getDependencyTree                                                        *)
(***************************************************************************)

\* content.substring(0, 100) + (content.length > 100 ? '...' : '')
Summary(content) ==
  IF Len(content) > 100 THEN SubSeq(content, 1, 100) \o <<"...">> ELSE content

TreeFrame(content, visited) ==
  [Frame("getDependencyTree", content, 0) EXCEPT
     !.matches = extractLinks(content), !.phase = "loop", !.visited = visited]

Node(name, type, path, error, children) ==
  [name |-> name, type |-> type, path |-> path, error |-> error,
   children |-> children]

\* A mutation of the loop: the reference stays in the visited set.
PushedNotDeleted(f, node) ==
  [f EXCEPT !.links = Append(f.links, node),
            !.i = f.i + 1, !.phase = "loop"]

\* tree.links.push(node), visited.delete(link.content), the next link
Pushed(f, node) ==
  [f EXCEPT !.links = Append(f.links, node),
            !.visited = f.visited \ {Link(f).content},
            !.i = f.i + 1, !.phase = "loop"]

\* getDependencyTree(content) with a fresh visited set
RequestDependencyTree ==
  /\ op = "idle"
  /\ op' = "getDependencyTree"
  /\ outcome' = "running"
  /\ stack' = << TreeFrame(input, {}) >>
  /\ UNCHANGED <<substitutes, rootPath, input, result, fsLog, validated, warnCount, returned>>
  /\ started' = substitutes
  /\ UNCHANGED <<updates, history, deferred>>
  /\ UNCHANGED sessionVars

\* the loop of getDependencyTree at the next link, up to a nested call or
\* its first file-system call
dependencyTreeLink ==
  /\ stack # << >>
  /\ Top.kind = "getDependencyTree"
  /\ Top.phase = "loop"
  /\ Top.i <= Len(Top.matches)
  /\ LET name     == Link(Top).content
         rootP    == getRootPath
         filePath == IF isAbsolute(name) THEN name ELSE resolve2(rootP, name)
         seen     == Top.visited \cup {name}
     IN IF name \in Top.visited
        THEN stack' = SetTop(stack,
               [Top EXCEPT !.links = Append(Top.links,
                              Node(name, "circular", << >>, << >>, "null")),
                           !.i = Top.i + 1])
        ELSE IF Truthy(getSubstitutes, name)
        THEN /\ Len(stack) < MaxStack
             /\ stack' = Append(SetTop(stack, [Top EXCEPT !.phase = "subtree",
                                                          !.visited = seen]),
                                TreeFrame(Lookup(getSubstitutes, name), seen))
        ELSE stack' = SetTop(stack, [Top EXCEPT !.phase = "treeExists",
                                                !.path = filePath,
                                                !.visited = seen])
  /\ UNCHANGED <<substitutes, rootPath, input, op, outcome, result, fsLog,
                 validated, warnCount, returned>>
  /\ UNCHANGED serverVars
  /\ UNCHANGED sessionVars

\* getDependencyTree: fs.pathExists(filePath)
dependencyTreeExists ==
  /\ stack # << >>
  /\ Top.phase = "treeExists"
  /\ fsLog' = Logged("pathExists", Top.path)
  /\ stack' = SetTop(stack,
       IF pathExists(Top.path)
       THEN [Top EXCEPT !.phase = "treeRead"]
       ELSE Pushed(Top, Node(Link(Top).content, "missing", << >>, << >>, "null")))
  /\ UNCHANGED <<substitutes, rootPath, input, op, outcome, result, validated, warnCount, returned>>
  /\ UNCHANGED serverVars
  /\ UNCHANGED sessionVars

\* getDependencyTree: fs.readFile(filePath), then the subtree of the content
dependencyTreeRead ==
  /\ stack # << >>
  /\ Top.phase = "treeRead"
  /\ fsLog' = Logged("readFile", Top.path)
  /\ LET r == readFile(Top.path)
     IN IF r.ok
        THEN /\ Len(stack) < MaxStack
             /\ stack' = Append(SetTop(stack, [Top EXCEPT !.phase = "filetree"]),
                                TreeFrame(r.content, Top.visited))
        ELSE stack' = SetTop(stack,
               Pushed(Top, Node(Link(Top).content, "error", << >>, r.message, "null")))
  /\ UNCHANGED <<substitutes, rootPath, input, op, outcome, result, validated, warnCount, returned>>
  /\ UNCHANGED serverVars
  /\ UNCHANGED sessionVars

\* getDependencyTree has handled every link: return tree
dependencyTreeReturn ==
  /\ stack # << >>
  /\ Top.kind = "getDependencyTree"
  /\ Top.phase = "loop"
  /\ Top.i > Len(Top.matches)
  /\ LET tree   == [content |-> Summary(Top.content), links |-> Top.links]
         below  == Pop(stack)
         parent == below[Len(below)]
     IN IF below = << >>
        THEN /\ stack' = << >>
             /\ result' = tree
             /\ outcome' = "returned"
        ELSE /\ stack' = SetTop(below,
                  Pushed(parent,
                    IF parent.phase = "subtree"
                    THEN Node(Link(parent).content, "substitute", << >>, << >>, tree)
                    ELSE Node(Link(parent).content, "file", parent.path, << >>, tree)))
             /\ UNCHANGED <<result, outcome>>
  /\ UNCHANGED <<substitutes, rootPath, input, op, fsLog, validated, warnCount, returned>>
  /\ UNCHANGED serverVars
  /\ UNCHANGED sessionVars

Next ==
  \/ RequestProcessLinks
  \/ RequestValidateLinks
  \/ RequestDependencyTree
  \/ processLinksEnter
  \/ resolveLinkCall
  \/ filePathExists
  \/ fileRead
  \/ folderExists
  \/ folderStat
  \/ folderReaddir
  \/ folderRead
  \/ processLinksReturn
  \/ validateLinksReturn
  \/ dependencyTreeLink
  \/ dependencyTreeExists
  \/ dependencyTreeRead
  \/ dependencyTreeReturn

Spec == Init /\ [][Next]_vars

\* the server's event loop runs every pending continuation
FairSpec == Spec /\ WF_vars(Next)

(***************************************************************************)
(* checkCircularDependencies: a synchronous depth-first search over the     *)
(* substitutes.                                                             *)
(***************************************************************************)

\* how many markers the value of a substitute of the reference graphs holds
MaxLinks == 2

C == <<"C">>

GraphMarkers == { Marker(A), Marker(B), Marker(<<" ", "C", " ">>) }

RECURSIVE LinkTexts(_)
LinkTexts(n) ==
  IF n = 0 THEN { << >> }
  ELSE LET shorter == LinkTexts(n - 1)
       IN shorter \cup { t \o m : t \in shorter, m \in GraphMarkers }

\* Object.keys(substitutes): the keys A, B or A, B, C in every insertion
\* order
KeyOrders ==
  { o \in [1..2 -> {A, B}] \cup [1..3 -> {A, B, C}] :
      \A i, j \in DOMAIN o : i # j => o[i] # o[j] }

\* the runs of at most n markers, no marker twice
RECURSIVE DistinctLinkTexts(_)
DistinctLinkTexts(n) ==
  IF n = 0 THEN { << >> }
  ELSE LET shorter == DistinctLinkTexts(n - 1)
       IN shorter \cup { p[1] \o p[2] : p \in { q \in shorter \X GraphMarkers :
                                                    indexOf(q[1], q[2]) = 0 } }

\* the mappings with keys A, B and with keys A, B, C, in every insertion
\* order, each value a run of at most MaxLinks markers (of distinct markers
\* when there are three keys)
GraphPool ==
  UNION { { [n \in DOMAIN o |-> Sub(o[n], v[n])]
            : v \in [DOMAIN o -> IF Len(o) = 2 THEN LinkTexts(MaxLinks)
                                 ELSE DistinctLinkTexts(MaxLinks)] }
          : o \in KeyOrders }

\* path.indexOf(key), 1-based (key is on the path)
IndexIn(path, key) ==
  CHOOSE n \in 1..Len(path) :
    path[n] = key /\ \A m \in 1..(n - 1) : path[m] # key

\* A mutation of the recorded cycle: the whole path, not the slice from the
\* first occurrence of key.
CycleWholePath(path, key) == Append(path, key)

\* [...path.slice(cycleStart), key]
CycleFrom(path, key) ==
  Append(SubSeq(path, IndexIn(path, key), Len(path)), key)

\* A mutation of the stack test: no key is ever found on the stack.
OnStackNever(key, st) == FALSE

\* recursionStack.has(key)
OnStack(key, st) == key \in st.recursionStack

\* dfs(key, path) and its loop over the links of substitutes[key]; st holds
\* visited, recursionStack and cycles, and in scanned the keys whose value
\* reached the link loop, in order
RECURSIVE dfs(_, _, _, _)
RECURSIVE dfsLinks(_, _, _, _)
dfs(subs, key, path, st) ==
  IF OnStack(key, st)
  THEN [st EXCEPT !.cycles = Append(st.cycles, CycleFrom(path, key))]
  ELSE IF key \in st.visited THEN st
  ELSE LET entered == [st EXCEPT !.visited = st.visited \cup {key},
                                 !.recursionStack = st.recursionStack \cup {key},
                                 !.scanned = Append(st.scanned, key)]
           after   == IF Truthy(subs, key)
                      THEN dfsLinks(subs, extractLinks(Lookup(subs, key)),
                                    Append(path, key), entered)
                      ELSE entered
       IN [after EXCEPT !.recursionStack = after.recursionStack \ {key}]

dfsLinks(subs, links, path, st) ==
  IF links = << >> THEN st
  ELSE dfsLinks(subs, Tail(links), path,
                IF Truthy(subs, Head(links).content)
                THEN dfs(subs, Head(links).content, path, st)
                ELSE st)

\* for (const key of Object.keys(substitutes)) if (!visited.has(key)) dfs(key)
RECURSIVE dfsKeys(_, _, _)
dfsKeys(subs, n, st) ==
  IF n > Len(subs) THEN st
  ELSE dfsKeys(subs, n + 1,
               IF subs[n].key \in st.visited THEN st
               ELSE dfs(subs, subs[n].key, << >>, st))

\* the search over all keys, from empty visited, recursionStack and cycles
search(subs) ==
  dfsKeys(subs, 1, [visited |-> {}, recursionStack |-> {}, cycles |-> << >>,
                    scanned |-> << >>])

cycles(subs) == search(subs).cycles

checkCircularDependencies ==
  /\ op = "idle"
  /\ op' = "checkCircularDependencies"
  /\ outcome' = "returned"
  /\ result' = cycles(getSubstitutes)
  /\ UNCHANGED <<substitutes, rootPath, input, stack, fsLog, validated,
                 warnCount, returned>>
  /\ UNCHANGED serverVars
  /\ UNCHANGED sessionVars

InitCycles ==
  /\ substitutes \in GraphPool
  /\ rootPath = << >>
  /\ input = << >>
  /\ op = "idle"
  /\ outcome = "idle"
  /\ stack = << >>
  /\ result = << >>
  /\ fsLog = << >>
  /\ validated = {}
  /\ warnCount = 0
  /\ returned = NoReturn
  /\ ServerIdle
  /\ SessionIdle

NextCycles == checkCircularDependencies

SpecCycles == InitCycles /\ [][NextCycles]_vars

(***************************************************************************)
(* Chains of substitutes: s1 = "{{s2}}", s2 = "{{s3}}", ... down to a text  *)
(* without markers, expanded by processLinks("{{s1}}").                     *)
(***************************************************************************)

\* the longest chain
MaxChain == 11

\* the key of the i-th substitute of a chain
ChainKey(i) == <<"s", ToString(i)>>

\* the texts a chain ends in: none holds a marker
ChainEnds ==
  { <<"d", "o", "n", "e">>,
    <<"{", "{", "x">>,
    <<"h", "$", "&">>,
    << >> }

Chain(k, t) ==
  [i \in 1..k |-> Sub(ChainKey(i), IF i = k THEN t ELSE Marker(ChainKey(i + 1)))]

ChainPool == { Chain(k, t) : k \in 1..MaxChain, t \in ChainEnds }

InitChain ==
  /\ substitutes \in ChainPool
  /\ rootPath \in RootPool
  /\ input = Marker(ChainKey(1))
  /\ op = "idle"
  /\ outcome = "idle"
  /\ stack = << >>
  /\ result = << >>
  /\ fsLog = << >>
  /\ validated = {}
  /\ warnCount = 0
  /\ returned = NoReturn
  /\ ServerIdle
  /\ SessionIdle

NextChain ==
  \/ RequestProcessLinks
  \/ processLinksEnter
  \/ resolveLinkCall
  \/ filePathExists
  \/ processLinksReturn

SpecChain == InitChain /\ [][NextChain]_vars

(***************************************************************************)
(* The substitutes are replaced by a client while requests are served.      *)
(***************************************************************************)

\* the updateSubstitutes events one behaviour handles
MaxUpdates == 1

\* the mappings a client sends
UpdatePool ==
  { << >>,
    << Sub(A, <<"h">>) >>,
    << Sub(A, Marker(B)), Sub(B, <<"h">>) >>,
    << Sub(A, Marker(B)), Sub(B, Marker(A)) >> }

\* the texts the requests carry
UpdateTexts ==
  { Marker(A),
    Marker(<<"a", ".", "md">>),
    Marker(<<"a", ".", "md">>) \o Marker(A),
    Marker(<<"d", "/", "*">>) }

\* the call in progress is suspended at a file-system call: the event loop
\* is free to run the handler of another event
AwaitingFileSystem ==
  /\ stack # << >>
  /\ Top.phase \in {"pathExists", "readFile", "folderExists", "folderStat",
                    "readdir", "folderRead"}

\* socket.emit(event, data)
Event(event, data) == [event |-> event, data |-> data]

\* socket.broadcast.emit(event, data): to every client but the sender
Broadcast(sender, e) ==
  [c \in Clients |-> IF c = sender THEN broadcast[c] ELSE Append(broadcast[c], e)]

\* DataManager.saveSubstitutes(substitutes)
saveSubstitutes(subs) == substitutes' = subs

\* server.js: socket.on('updateSubstitutes'), between two requests or while
\* a request is suspended
updateSubstitutes ==
  /\ updates < MaxUpdates
  /\ stack = << >> \/ AwaitingFileSystem
  /\ \E subs \in UpdatePool :
       /\ saveSubstitutes(subs)
       /\ broadcast' = Broadcast("other", Event("substitutesUpdated", subs))
  /\ updates' = updates + 1
  /\ UNCHANGED <<rootPath, input, op, outcome, stack, result, fsLog, validated,
                 warnCount, returned, started, history, deferred>>
  /\ UNCHANGED <<prompts, currentData, emitted>>

InitUpdates ==
  /\ substitutes \in UpdatePool
  /\ rootPath \in RootPool
  /\ input \in UpdateTexts
  /\ op = "idle"
  /\ outcome = "idle"
  /\ stack = << >>
  /\ result = << >>
  /\ fsLog = << >>
  /\ validated = {}
  /\ warnCount = 0
  /\ returned = NoReturn
  /\ ServerIdle
  /\ SessionIdle

NextUpdates ==
  \/ updateSubstitutes
  \/ RequestProcessLinks
  \/ processLinksEnter
  \/ resolveLinkCall
  \/ filePathExists
  \/ fileRead
  \/ folderExists
  \/ folderStat
  \/ folderReaddir
  \/ folderRead
  \/ processLinksReturn

SpecUpdates == InitUpdates /\ [][NextUpdates]_vars

(***************************************************************************)
(* The commands and the history of commands.                                *)
(***************************************************************************)

\* the longest stored history a command is added to
MaxHistory == 2

\* the callbacks that wait for the check phase of the event loop
MaxDeferred == 2

\* the commands the clients send
Commands == {"restart", "subs", "root"}

\* { command, args, timestamp }: the model leaves the timestamp out
Entry(command) == [command |-> command, args |-> << >>]

\* DataManager.getHistory(): a copy
getHistory == history

\* DataManager.clearHistory()
clearHistory == history' = << >>

\* DataManager.saveHistory(history)
saveHistory(h) == history' = h

\* what handleCommand returns
commandResult(command) ==
  CASE command = "restart" -> [type |-> "restart", message |-> <<"CLI restarted">>]
    [] command = "subs" -> [type |-> "ui", component |-> "substitutes",
                            data |-> getSubstitutes]
    [] command = "root" -> [type |-> "ui", component |-> "root",
                            data |-> getRootPath]

\* server.js: handleCommand(command, args, socket): the entry is pushed on a
\* copy of the history, the save of the copy is deferred with setImmediate,
\* then the command runs
handleCommand ==
  /\ stack = << >>
  /\ Len(history) < MaxHistory
  /\ Len(deferred) < MaxDeferred
  /\ \E command \in Commands :
       LET copy == Append(getHistory, Entry(command))
       IN /\ deferred' = Append(deferred, copy)
          /\ IF command = "restart" THEN clearHistory ELSE UNCHANGED history
          /\ result' = commandResult(command)
  /\ op' = "command"
  /\ outcome' = "returned"
  /\ UNCHANGED <<substitutes, rootPath, input, stack, fsLog, validated,
                 warnCount, returned, started, updates>>
  /\ UNCHANGED sessionVars

\* the check phase runs the oldest callback: dataManager.saveHistory(history)
\* with the copy the command made
runImmediate ==
  /\ deferred # << >>
  /\ saveHistory(Head(deferred))
  /\ deferred' = Tail(deferred)
  /\ UNCHANGED <<substitutes, rootPath, input, op, outcome, stack, result,
                 fsLog, validated, warnCount, returned, started, updates>>
  /\ UNCHANGED sessionVars

InitHistory ==
  /\ substitutes \in UpdatePool
  /\ rootPath \in RootPool
  /\ input = << >>
  /\ op = "idle"
  /\ outcome = "idle"
  /\ stack = << >>
  /\ result = << >>
  /\ fsLog = << >>
  /\ validated = {}
  /\ warnCount = 0
  /\ returned = NoReturn
  /\ started = << >>
  /\ updates = 0
  /\ history \in { << >>, << Entry("subs") >> }
  /\ deferred = << >>
  /\ SessionIdle

NextHistory ==
  \/ handleCommand
  \/ runImmediate

SpecHistory == InitHistory /\ [][NextHistory]_vars

(***************************************************************************)
(* The clients save prompts and substitutes.                                *)
(***************************************************************************)

\* the events of the app that wait for the server
MaxEmitted == 2

\* the broadcast events that wait for one client
MaxBroadcast == 1

P == <<"p">>
Q == <<"q">>

\* part_000: const reservedCommands in savePrompts
reservedCommands ==
  { <<"restart">>, <<"prompts">>, <<"subs">>, <<"system">>, <<"ai-model">>,
    <<"root">> }

\* app.js: const reservedCommands in savePrompt
reservedCommandsOfApp == reservedCommands \cup { <<"help">> }

\* updated[name] = content on a copy: the entry keeps its place, a new entry
\* goes last
Put(mapping, name, content) ==
  IF HasKey(mapping, name)
  THEN [n \in 1..Len(mapping) |->
          IF mapping[n].key = name THEN Sub(name, content) ELSE mapping[n]]
  ELSE Append(mapping, Sub(name, content))

\* what the user types in the name field of the forms
NameInputs == { P, <<" ", "q", " ">>, << >>, <<" ">>, <<"help">>, <<"root", " ">> }

\* what the user types in the substitute name field
SubstituteInputs == { A, <<" ", "B">>, << >> }

\* the prompts another client sends
PromptPool ==
  { << >>,
    << Sub(P, <<"x">>) >>,
    << Sub(<<"help">>, <<"x">>) >>,
    << Sub(P, <<"x">>), Sub(<<"root">>, <<"x">>) >> }

\* savePrompts: a name of the data is a reserved command
SomeReserved(data) == \E n \in 1..Len(data) : data[n].key \in reservedCommands

\* socket.on('updatePrompts'): savePrompts throws on a reserved name, and
\* the sender alone hears of the error; otherwise the prompts are stored
\* and broadcast
handleUpdatePrompts(sender, data) ==
  IF SomeReserved(data)
  THEN UNCHANGED <<prompts, broadcast>>
  ELSE /\ prompts' = data
       /\ broadcast' = Broadcast(sender, Event("promptsUpdated", data))

\* socket.on('updateSubstitutes'): the substitutes are stored and broadcast
handleUpdateSubstitutes(sender, data) ==
  /\ saveSubstitutes(data)
  /\ broadcast' = Broadcast(sender, Event("substitutesUpdated", data))

\* the other client emits updatePrompts and the server handles it
updatePrompts ==
  /\ updates < MaxUpdates
  /\ Len(broadcast["app"]) < MaxBroadcast
  /\ \E data \in PromptPool : handleUpdatePrompts("other", data)
  /\ updates' = updates + 1
  /\ UNCHANGED <<substitutes, rootPath, input, op, outcome, stack, result, fsLog,
                 validated, warnCount, returned, started, history, deferred,
                 currentData, emitted>>

\* app.js: savePrompt(): the name is trimmed and checked, the prompt is put
\* in a copy of the prompts the client holds, the copy is emitted
savePrompt ==
  /\ Len(emitted) < MaxEmitted
  /\ \E typed \in NameInputs :
       LET name == trim(typed)
       IN IF name = << >> \/ name \in reservedCommandsOfApp
          THEN UNCHANGED emitted
          ELSE emitted' = Append(emitted,
                 Event("updatePrompts",
                       Put(currentData["app"].prompts, name, <<"x">>)))
  /\ UNCHANGED <<substitutes, rootPath, input, op, outcome, stack, result, fsLog,
                 validated, warnCount, returned, started, updates, history,
                 deferred, prompts, currentData, broadcast>>

\* app.js: saveSubstitute()
saveSubstitute ==
  /\ Len(emitted) < MaxEmitted
  /\ \E typed \in SubstituteInputs :
       LET name == trim(typed)
       IN IF name = << >>
          THEN UNCHANGED emitted
          ELSE emitted' = Append(emitted,
                 Event("updateSubstitutes",
                       Put(currentData["app"].substitutes, name, <<"h">>)))
  /\ UNCHANGED <<substitutes, rootPath, input, op, outcome, stack, result, fsLog,
                 validated, warnCount, returned, started, updates, history,
                 deferred, prompts, currentData, broadcast>>

\* the server handles the oldest event of the app
serverReceives ==
  /\ emitted # << >>
  /\ Len(broadcast["other"]) < MaxBroadcast
  /\ emitted' = Tail(emitted)
  /\ IF Head(emitted).event = "updatePrompts"
     THEN /\ handleUpdatePrompts("app", Head(emitted).data)
          /\ UNCHANGED substitutes
     ELSE /\ handleUpdateSubstitutes("app", Head(emitted).data)
          /\ UNCHANGED prompts
  /\ UNCHANGED <<rootPath, input, op, outcome, stack, result, fsLog, validated,
                 warnCount, returned, started, updates, history, deferred,
                 currentData>>

\* app.js: the promptsUpdated and substitutesUpdated listeners of a client
clientReceives ==
  \E c \in Clients :
    /\ broadcast[c] # << >>
    /\ broadcast' = [broadcast EXCEPT ![c] = Tail(broadcast[c])]
    /\ currentData' =
         [currentData EXCEPT ![c] =
            IF Head(broadcast[c]).event = "promptsUpdated"
            THEN [currentData[c] EXCEPT !.prompts = Head(broadcast[c]).data]
            ELSE [currentData[c] EXCEPT !.substitutes = Head(broadcast[c]).data]]
    /\ UNCHANGED <<substitutes, rootPath, input, op, outcome, stack, result,
                   fsLog, validated, warnCount, returned, started, updates,
                   history, deferred, prompts, emitted>>

InitClients ==
  /\ substitutes \in { << >>, << Sub(A, <<"h">>) >> }
  /\ rootPath = << >>
  /\ input = << >>
  /\ op = "idle"
  /\ outcome = "idle"
  /\ stack = << >>
  /\ result = << >>
  /\ fsLog = << >>
  /\ validated = {}
  /\ warnCount = 0
  /\ returned = NoReturn
  /\ ServerIdle
  /\ prompts \in { << >>, << Sub(Q, <<"x">>) >> }
  /\ currentData = [c \in Clients |-> InitialData]
  /\ emitted = << >>
  /\ broadcast = [c \in Clients |-> << >>]

NextClients ==
  \/ updatePrompts
  \/ savePrompt
  \/ saveSubstitute
  \/ serverReceives
  \/ clientReceives

SpecClients == InitClients /\ [][NextClients]_vars

(***************************************************************************)
(* extractLinks applied to arbitrary texts.                                 *)
(***************************************************************************)

\* the longest text scanned
MaxScan == 7

\* the characters of the texts scanned
ScanChars == {"{", "}", "a", " "}

ScanTexts == UNION { [1..n -> ScanChars] : n \in 0..MaxScan }

\* linkProcessor.extractLinks(content)
RequestExtractLinks ==
  /\ op = "idle"
  /\ op' = "extractLinks"
  /\ outcome' = "returned"
  /\ result' = extractLinks(input)
  /\ UNCHANGED <<substitutes, rootPath, input, stack, fsLog, validated,
                 warnCount, returned>>
  /\ UNCHANGED serverVars
  /\ UNCHANGED sessionVars

InitScan ==
  /\ substitutes = << >>
  /\ rootPath = << >>
  /\ input \in ScanTexts
  /\ op = "idle"
  /\ outcome = "idle"
  /\ stack = << >>
  /\ result = << >>
  /\ fsLog = << >>
  /\ validated = {}
  /\ warnCount = 0
  /\ returned = NoReturn
  /\ ServerIdle
  /\ SessionIdle

NextScan == RequestExtractLinks

SpecScan == InitScan /\ [][NextScan]_vars

(***************************************************************************)
(* Properties.                                                              *)
(***************************************************************************)

IsText(v) == DOMAIN v = 1..Len(v) /\ \A n \in 1..Len(v) : v[n] \in STRING

Contains(s, p) == indexOf(s, p) # 0

\* the text carries an error annotation of processLinks
HasAnnotation(text) == \E n \in 1..Len(text) : text[n] = " [ERROR: "

\* p is the directory r or lies below it
InsideRoot(p, r) ==
  \/ p = r
  \/ startsWith(p, IF r = <<"/">> THEN r ELSE r \o <<"/">>)

Engine == op \in {"processLinks", "validateLinks"}

MutualCycle == << Sub(A, Marker(B)), Sub(B, Marker(A)) >>

SelfCycle == << Sub(A, <<"x">> \o Marker(A)) >>

Missing == <<"m", ".", "md">>

\* C1: for every substitute mapping, cyclic ones included, and every input
\* text, a top-level processLinks call terminates and returns a string.
C1_Terminates ==
  (op = "processLinks") ~>
    (op = "processLinks" /\ outcome = "returned" /\ IsText(result))

\* a top-level call over a cyclic mapping has returned, cut at the limit
C1_Witness ==
  /\ op = "processLinks"
  /\ outcome = "returned"
  /\ substitutes \in {MutualCycle, SelfCycle}
  /\ Contains(input, Marker(A))
  /\ warnCount > 0

\* C2: with a configured root, no existence check, listing or read is made
\* by processLinks or validateLinks on a path whose canonical form lies
\* outside the root (such a reference fails with the path-escape failure).
C2_OutsideNeverAccessed ==
  (Engine /\ rootPath # << >>) =>
    \A n \in 1..Len(fsLog) :
      InsideRoot(Normalize(fsLog[n].path), resolve1(rootPath))

\* C3: the root check accepts a path only if it is the canonical root or
\* extends it at a path separator, for file and wildcard links alike.
C3_SeparatorBoundary ==
  \A p \in validated : InsideRoot(p, resolve1(rootPath))

\* C4: in processLinks, validateLinks and getDependencyTree every path
\* handed to the file system has first passed the root check (it is a
\* checked path or an entry of a checked directory).
C4_AccessAfterCheck ==
  rootPath # << >> =>
    \A n \in 1..Len(fsLog) :
      \E v \in validated : InsideRoot(Normalize(fsLog[n].path), v)

\* C5: no failure of a link escapes a top-level processLinks call as an
\* exception: the call is running or has returned a text.
C5_NoFailureEscapes ==
  op = "processLinks" =>
    /\ outcome \in {"running", "returned"}
    /\ outcome = "returned" => IsText(result)

\* a top-level call has returned although a file read failed on the way
C5_Witness ==
  /\ op = "processLinks"
  /\ outcome = "returned"
  /\ \E n \in 1..Len(result) : result[n] = "Failed to read file: "

\* C6: for a text made of a failing marker and a marker naming a substitute
\* with a link-free value v, the returned text is the failing marker with
\* its error annotation followed by v.
C6_PerLinkIsolation ==
  ( /\ op = "processLinks"
    /\ outcome = "returned"
    /\ input = Marker(Missing) \o Marker(A)
    /\ Truthy(substitutes, A)
    /\ extractLinks(Lookup(substitutes, A)) = << >> )
  => result = errorReplacement(Missing,
                 IF rootPath = << >> THEN RootNotSet
                 ELSE <<"File not found: ">> \o Missing)
              \o Lookup(substitutes, A)

\* C7: a processLinks call with a depth above 10 neither scans nor calls
\* anything and returns its content unchanged, with a warning and without
\* an exception; the depth is 0 at the top-level call and grows by 1 per
\* nested call.
C7_DepthLimit ==
  /\ \A n \in 1..Len(stack) :
       (stack[n].kind = "processLinks" /\ stack[n].depth > maxDepth)
         => (stack[n].phase = "entry" /\ n = Len(stack))
  /\ returned.depth > maxDepth =>
       /\ returned.value = returned.content
       /\ ~returned.scanned
       /\ warnCount >= 1
       /\ outcome # "threw"
  /\ op = "processLinks" => \A n \in 1..Len(stack) : stack[n].depth = n - 1

\* a call above the limit has just returned content that holds markers
C7_Witness ==
  /\ returned.depth > maxDepth
  /\ extractLinks(returned.content) # << >>

\* C8 as stated: no processLinks call has a depth above 10, and content
\* reached at depth 10 is returned with its markers unexpanded.
C8_NeverPastTen ==
  /\ \A n \in 1..Len(stack) :
       stack[n].kind = "processLinks" => stack[n].depth <= maxDepth
  /\ returned.depth = maxDepth => returned.value = returned.content

\* C8 amended: no processLinks call has a depth above 11, and content
\* reached at depth 11 is returned with its markers unexpanded.
C8_NeverPastEleven ==
  /\ \A n \in 1..Len(stack) :
       stack[n].kind = "processLinks" => stack[n].depth <= maxDepth + 1
  /\ returned.depth = maxDepth + 1 => returned.value = returned.content

\* a call at depth 11 is in progress on content that holds markers
C8_Witness ==
  /\ stack # << >>
  /\ Top.kind = "processLinks"
  /\ Top.depth = maxDepth + 1
  /\ extractLinks(Top.content) # << >>

\* C9: with A = "{{B}}" and B = "{{A}}", processLinks("{{A}}") returns a
\* text that still holds the marker of A or of B and no error annotation.
C9_CycleLeavesMarker ==
  ( /\ op = "processLinks"
    /\ outcome = "returned"
    /\ substitutes = MutualCycle
    /\ input = Marker(A) )
  => /\ Contains(result, Marker(A)) \/ Contains(result, Marker(B))
     /\ ~HasAnnotation(result)

\* processLinks("{{A}}") has returned over the mutual cycle
C9_Witness ==
  /\ op = "processLinks"
  /\ outcome = "returned"
  /\ substitutes = MutualCycle
  /\ input = Marker(A)
  /\ IsText(result)

\* x -> y: the raw value of x holds a marker whose trimmed reference is the
\* substitute key y
Edge(subs, x, y) ==
  /\ HasKey(subs, x)
  /\ HasKey(subs, y)
  /\ LET links == extractLinks(Lookup(subs, x))
     IN \E n \in 1..Len(links) : links[n].content = y

\* C10: every cycle checkCircularDependencies returns has at least two
\* names, starts and ends with the same name, and each consecutive pair is
\* an edge; for {A: "{{B}}", B: "{{A}}"} the result is the one cycle A, B, A.
C10_CyclesAreCycles ==
  (op = "checkCircularDependencies" /\ outcome = "returned") =>
    /\ \A n \in 1..Len(result) :
         LET c == result[n]
         IN /\ Len(c) >= 2
            /\ c[1] = c[Len(c)]
            /\ \A j \in 1..(Len(c) - 1) : Edge(substitutes, c[j], c[j + 1])
    /\ substitutes = MutualCycle => result = << <<A, B, A>> >>

\* a cycle that does not start at the key the search started from
C10_Witness ==
  /\ op = "checkCircularDependencies"
  /\ outcome = "returned"
  /\ \E n \in 1..Len(result) : result[n] = <<B, C, B>>

Keys(subs) == { subs[n].key : n \in 1..Len(subs) }

\* the edges of the reference graph of subs
Edges(subs) ==
  { e \in Keys(subs) \X Keys(subs) : Edge(subs, e[1], e[2]) }

\* the reference graph of subs has a directed cycle: some non-empty set of
\* keys in which every key has an edge to a key of the set
HasCycle(subs) ==
  LET E == Edges(subs)
  IN \E S \in (SUBSET Keys(subs)) \ {{}} :
       \A x \in S : \E y \in S : <<x, y>> \in E

\* C11: checkCircularDependencies returns a non-empty list exactly when the
\* reference graph has a directed cycle (self-loops included), in every
\* insertion order of the keys; it scans the links of each substitute at
\* most once and returns normally.
C11_CycleIffReported ==
  op = "checkCircularDependencies" =>
    /\ outcome = "returned"
    /\ (result # << >>) <=> HasCycle(substitutes)
    /\ LET scanned == search(substitutes).scanned
       IN \A i, j \in 1..Len(scanned) : i # j => scanned[i] # scanned[j]

\* a cycle among the later keys is reported although the first key, which
\* leads into it, has no edge into it and so lies on no cycle
C11_Witness ==
  /\ op = "checkCircularDependencies"
  /\ substitutes[1].key = C
  /\ \A x \in Keys(substitutes) : ~Edge(substitutes, x, C)
  /\ Edge(substitutes, C, A)
  /\ Edge(substitutes, A, A)
  /\ result # << >>

\* the frame is suspended at a file-system call of resolveLink or
\* resolveFolderWildcard
AtFileSystem(f) ==
  f.phase \in {"pathExists", "readFile", "folderExists", "folderStat",
               "readdir", "folderRead"}

\* C12: a reference that is a key of the substitute mapping resolves to that
\* substitute's value (handed to processLinks as it is) and causes no
\* file-system call, even when it is also the path of a supported file
\* under the root.
C12_SubstituteWins ==
  Engine =>
    \A n \in 1..Len(stack) :
      LET f == stack[n]
      IN (f.phase # "entry" /\ f.i <= Len(f.matches)
          /\ HasKey(substitutes, Link(f).content)) =>
           /\ ~AtFileSystem(f)
           /\ (f.phase = "call" =>
                 stack[n + 1].content = Lookup(substitutes, Link(f).content))

\* C13: for a chain of k <= 10 substitutes, each value exactly the marker of
\* the next and the last a text t without markers, processLinks("{{s1}}")
\* returns exactly t.
C13_ChainReturnsEnd ==
  ( /\ op = "processLinks"
    /\ outcome = "returned"
    /\ Len(substitutes) <= maxDepth
    /\ substitutes = Chain(Len(substitutes), substitutes[Len(substitutes)].value)
    /\ extractLinks(substitutes[Len(substitutes)].value) = << >>
    /\ input = Marker(ChainKey(1)) )
  => result = substitutes[Len(substitutes)].value

\* the text is exactly one marker
IsMarker(m) ==
  /\ Len(extractLinks(m)) = 1
  /\ extractLinks(m)[1].full = m

\* the text is some text written twice
Doubled(text) ==
  \E n \in 0..Len(text) :
    /\ Len(text) = 2 * n
    /\ SubSeq(text, 1, n) = SubSeq(text, n + 1, 2 * n)

\* C14: two occurrences of the same literal marker in one text are replaced
\* by the same text, whether the marker resolves or fails: for a text made
\* of one marker written twice, the returned text is one text written twice.
C14_SameMarkerSameText ==
  ( /\ op = "processLinks"
    /\ outcome = "returned"
    /\ \E n \in 1..Len(input) :
         /\ IsMarker(SubSeq(input, 1, n))
         /\ input = SubSeq(input, 1, n) \o SubSeq(input, 1, n) )
  => Doubled(result)

\* the reference c is no substitute and names no existing path: resolveLink
\* throws for it
ResolutionFails(c) ==
  /\ ~Truthy(substitutes, c)
  /\ \/ rootPath = << >>
     \/ ~IsWildcard(c) /\ ~pathExists(resolve2(rootPath, c))

\* C15: when the resolution of a marker fails, the returned text holds the
\* marker exactly as it was written in the input, white space between the
\* braces and the reference included, followed by a bracketed error
\* summary.
C15_OriginalMarkerKept ==
  ( /\ op = "processLinks"
    /\ outcome = "returned"
    /\ IsMarker(input)
    /\ ResolutionFails(extractLinks(input)[1].content) )
  => /\ startsWith(result, input \o <<" [ERROR: ">>)
     /\ result[Len(result)] = "]"

\* a frame whose loop awaits the expansion of the content it produced for a
\* directory-wildcard link
WildcardProduced(f) ==
  /\ f.kind \in {"processLinks", "validateLinks"}
  /\ f.phase = "call"
  /\ ~Truthy(substitutes, Link(f).content)
  /\ IsWildcard(Link(f).content)

\* the entries of directory dir with extension .md or .txt in any case
Qualifying(dir) ==
  { readdir(dir)[n] : n \in { k \in 1..Len(readdir(dir)) :
      extname(readdir(dir)[k]) \in { <<".", "md">>, <<".", "txt">>,
                                     <<".", "MD">>, <<".", "TXT">> } } }

\* the orderings of a set of names in ascending order
Ascending(names) ==
  { s \in [1..Cardinality(names) -> names] :
      \A i, j \in DOMAIN s : i < j => LessThan(s[i], s[j]) }

\* the section of a file: its heading, then its content
ContentSection(dir, file) ==
  FileHeader(file) \o FsFiles[Normalize(join(dir, file))].content

\* the section of a file: its heading, then its content or, when the file
\* cannot be read, a note of the failure
ContentOrNoteSection(dir, file) ==
  FileHeader(file) \o
  (IF readFile(join(dir, file)).ok THEN readFile(join(dir, file)).content
   ELSE <<"[ERROR: Failed to read file - ">> \o readFile(join(dir, file)).message
        \o <<"]", "\n">>)

RECURSIVE ContentSections(_, _)
ContentSections(dir, files) ==
  IF files = << >> THEN << >>
  ELSE ContentSection(dir, Head(files)) \o ContentSections(dir, Tail(files))

RECURSIVE ContentOrNoteSections(_, _)
ContentOrNoteSections(dir, files) ==
  IF files = << >> THEN << >>
  ELSE ContentOrNoteSection(dir, Head(files)) \o ContentOrNoteSections(dir, Tail(files))

\* C16 as stated: the content produced for a directory-wildcard link is one
\* section per entry with extension .md or .txt (in any case), in ascending
\* order of file name, each section the heading of the file followed by the
\* content of the file; no other entry appears.
C16_SectionsHoldContent ==
  Engine => \A n \in 1..Len(stack) :
    WildcardProduced(stack[n]) =>
      \E s \in Ascending(Qualifying(stack[n].path)) :
        stack[n].combined = ContentSections(stack[n].path, s)

\* C16, amended: the content produced for a directory-wildcard link with at
\* least one entry of extension .md or .txt (in any case) is one section per
\* such entry, in ascending order of file name, each section the heading of
\* the file followed by the content of the file or, when the file cannot be
\* read, by a note of the failure; no other entry appears.
C16_SectionsHoldContentOrNote ==
  Engine => \A n \in 1..Len(stack) :
    WildcardProduced(stack[n]) =>
      /\ Qualifying(stack[n].path) # {}
      /\ \E s \in Ascending(Qualifying(stack[n].path)) :
           /\ stack[n].combined = ContentOrNoteSections(stack[n].path, s)
           /\ stack[n + 1].content = stack[n].combined

\* the wildcard of a directory listed as b.txt, c.png, a.MD has produced its
\* content: a.MD first, c.png absent
C16_Witness ==
  /\ op = "processLinks"
  /\ Len(stack) = 2
  /\ WildcardProduced(stack[1])
  /\ readdir(stack[1].path) = << <<"b", ".", "txt">>, <<"c", ".", "png">>,
                                 <<"a", ".", "MD">> >>
  /\ stack[1].combined = FileHeader(<<"a", ".", "MD">>) \o Marker(B)
                         \o FileHeader(<<"b", ".", "txt">>) \o <<"bb">>

\* C17: every substitute lookup made during one top-level processLinks call
\* observes the mapping in effect when the call started, also when
\* saveSubstitutes ran while the expansion was suspended at a file or
\* directory read.
C17_LookupsSeeSnapshot ==
  [][(op = "processLinks" /\ resolveLinkCall) =>
       LET linkContent == Link(Top).content
       IN /\ HasKey(getSubstitutes, linkContent) <=> HasKey(started, linkContent)
          /\ HasKey(started, linkContent) =>
               Lookup(getSubstitutes, linkContent) = Lookup(started, linkContent)]_vars

\* the text holds a marker: "{{", then one or more symbols other than "}",
\* then "}}"
HoldsMarker(text) ==
  \E i, j \in 1..Len(text) :
    /\ i + 2 <= j
    /\ j + 1 <= Len(text)
    /\ text[i] = "{" /\ text[i + 1] = "{"
    /\ \A k \in (i + 2)..(j - 1) : text[k] # "}"
    /\ text[j] = "}" /\ text[j + 1] = "}"

\* C18: processLinks applied to a text without markers returns the text
\* unchanged, at every depth, for every substitute mapping and root setting.
C18_LinkFreeUnchanged ==
  (returned.depth >= 0 /\ ~HoldsMarker(returned.content)) =>
    returned.value = returned.content

\* a nested call, made for a substitute, has returned its text without markers
C18_Witness ==
  /\ returned.depth = 1
  /\ returned.scanned
  /\ rootPath # << >>
  /\ returned.content = <<"h", "$", "&">>
  /\ returned.value = <<"h", "$", "&">>

\* C19: circular references among substitutes are detected and prevented:
\* after any sequence of updateSubstitutes events the stored mapping has no
\* cycle in its reference graph, an update that would introduce one being
\* rejected.
C19_UpdatesKeepAcyclic ==
  updates > 0 => ~HasCycle(substitutes)

\* C20: the restart command clears the history of commands: once a restart
\* command has been handled and the deferred save of the history scheduled
\* by that same command has run, the stored history is empty.
C20_RestartClearsHistory ==
  [][(runImmediate /\ Head(deferred)[Len(Head(deferred))].command = "restart")
       => history' = << >>]_vars

\* README, Core Commands
CommandNames ==
  { <<"restart">>, <<"prompts">>, <<"subs">>, <<"system">>, <<"ai-model">>,
    <<"root">>, <<"help">> }

\* C21: prompt names cannot be reserved command names: after any sequence of
\* updatePrompts events the stored prompts hold no key equal to a command
\* name (restart, prompts, subs, system, ai-model, root, help); a rejected
\* update leaves the stored prompts unchanged.
C21_NoReservedPromptName ==
  \A n \in 1..Len(prompts) : prompts[n].key \notin CommandNames

\* C22: nothing saved is lost: when one client session saves a prompt and
\* then saves a different prompt, no other client acting and nothing being
\* deleted, the stored prompts afterwards hold both; likewise for two
\* substitutes saved in succession.  No client but the app having acted,
\* every save of the app that the server handles keeps what is stored.
C22_NothingSavedIsLost ==
  [][(updates = 0 /\ serverReceives) =>
       /\ \A n \in 1..Len(prompts) : HasKey(prompts', prompts[n].key)
       /\ \A n \in 1..Len(substitutes) : HasKey(substitutes', substitutes[n].key)]_vars

\* the text with each occurrence found by the scan replaced, where it
\* stands, by the replacement of that occurrence: the occurrences from the
\* n-th on, the text from position pos on
RECURSIVE Simultaneous(_, _, _, _, _)
Simultaneous(text, matches, replacements, n, pos) ==
  IF n > Len(matches) THEN SubSeq(text, pos, Len(text))
  ELSE SubSeq(text, pos, matches[n].index) \o replacements[n]
       \o Simultaneous(text, matches, replacements, n + 1,
                       matches[n].index + Len(matches[n].full) + 1)

\* a call of processLinks that has handled every match and is about to
\* return
Finished(f) ==
  /\ f.kind = "processLinks"
  /\ f.phase = "loop"
  /\ f.i > Len(f.matches)

\* C23: the result of expanding a text is the simultaneous substitution, at
\* each marker occurrence found by the scan, of the replacement of that
\* occurrence: replacing one marker never alters the text spliced in for
\* another occurrence.
C23_SimultaneousSubstitution ==
  \A n \in 1..Len(stack) :
    Finished(stack[n]) =>
      stack[n].processed =
        Simultaneous(stack[n].content, stack[n].matches, stack[n].replaced, 1, 1)

\* C24: the text spliced in for a resolved marker is its expanded content,
\* character for character: for a substitute whose value v holds no marker,
\* processLinks of its marker returns v, for every v, values with "$$" or
\* "$&" included.
C24_SplicedCharacterForCharacter ==
  ( /\ op = "processLinks"
    /\ outcome = "returned"
    /\ IsMarker(input)
    /\ HasKey(substitutes, extractLinks(input)[1].content)
    /\ ~HoldsMarker(Lookup(substitutes, extractLinks(input)[1].content)) )
  => result = Lookup(substitutes, extractLinks(input)[1].content)

\* the path a file link names
FilePathOf(c) == IF isAbsolute(c) THEN c ELSE resolve2(rootPath, c)

\* the first check of the fixed order that the file link c fails
FirstFailure(c) ==
  IF rootPath = << >> THEN "root"
  ELSE IF ~InsideRoot(resolve1(FilePathOf(c)), resolve1(rootPath)) THEN "sandbox"
  ELSE IF ~pathExists(FilePathOf(c)) THEN "exists"
  ELSE IF extname(FilePathOf(c)) \notin { <<".", "md">>, <<".", "txt">>,
                                          <<".", "MD">>, <<".", "TXT">> }
  THEN "extension"
  ELSE IF ~readFile(FilePathOf(c)).ok THEN "readable"
  ELSE "none"

\* how the failure of each check is reported
FailureReport(c, check) ==
  CASE check = "root" -> RootNotSet
    [] check = "sandbox" -> <<"File path outside root directory: ">> \o c
    [] check = "exists" -> <<"File not found: ">> \o c
    [] check = "extension" -> <<"Unsupported file type: ">>
    [] check = "readable" -> <<"Failed to read file: ">> \o c

\* the request is one marker, a file link
FileLinkRequest ==
  /\ op = "processLinks"
  /\ IsMarker(input)
  /\ ~Truthy(substitutes, extractLinks(input)[1].content)
  /\ ~IsWildcard(extractLinks(input)[1].content)

\* C25: a file link is checked in the fixed order root configured, inside
\* the sandbox, exists, supported extension, readable; the first check that
\* fails is the failure reported, and the file is read only when every
\* earlier check has passed.
C25_ChecksInFixedOrder ==
  FileLinkRequest =>
    LET c == extractLinks(input)[1].content
    IN /\ (\E n \in 1..Len(fsLog) : fsLog[n].fn = "readFile")
            => FirstFailure(c) \in {"readable", "none"}
       /\ (outcome = "returned" /\ FirstFailure(c) # "none")
            => startsWith(result, Marker(c) \o <<" [ERROR: ">>
                                  \o FailureReport(c, FirstFailure(c)))
       /\ (outcome = "returned" /\ FirstFailure(c) = "none")
            => ~startsWith(result, Marker(c) \o <<" [ERROR: ">>)

\* the report of the root-not-configured failure for the reference c
RootFailure(c) == Marker(c) \o <<" [ERROR: ">> \o RootNotSet \o <<"]">>

\* C26: with an empty root path every file link and every directory-wildcard
\* link resolved through processLinks or validateLinks fails with the
\* root-not-configured failure before any file-system access, while the links
\* that name a substitute resolve normally.
C26_EmptyRootFailsFirst ==
  (Engine /\ rootPath = << >>) =>
    /\ fsLog = << >>
    /\ \A n \in 1..Len(stack) :
         LET f == stack[n]
         IN /\ \A k \in 1..Len(f.replaced) :
                 IF HasKey(substitutes, f.matches[k].content)
                 THEN f.replaced[k] # RootFailure(f.matches[k].content)
                 ELSE f.replaced[k] = RootFailure(f.matches[k].content)
            /\ \A k \in 1..Len(f.results) :
                 IF HasKey(substitutes, f.matches[k].content)
                 THEN f.results[k].valid
                 ELSE f.results[k] = [link |-> f.matches[k].content,
                                      valid |-> FALSE, error |-> RootNotSet]

\* the directory a wildcard link names
FolderOf(c) ==
  LET folderPath == SubSeq(c, 1, Len(c) - 2)
  IN IF isAbsolute(folderPath) THEN folderPath ELSE resolve2(rootPath, folderPath)

\* the wildcard link c passes the root, sandbox, existence and is-directory
\* checks: its directory is listed
Listed(c) ==
  /\ ~Truthy(substitutes, c)
  /\ IsWildcard(c)
  /\ rootPath # << >>
  /\ startsWith(resolve1(FolderOf(c)), resolve1(rootPath))
  /\ pathExists(FolderOf(c))
  /\ isDirectory(FolderOf(c))

\* C27: once the directory of a wildcard link has passed the root, sandbox,
\* existence and is-directory checks and has been listed, resolution never
\* fails: with no qualifying entry it returns a placeholder naming the
\* directory, and a read failure of one qualifying file is embedded under
\* the heading of that file while every other qualifying file appears with
\* its content.
C27_ListedNeverFails ==
  Engine => \A n \in 1..Len(stack) :
    LET f == stack[n]
    IN /\ \A k \in 1..Len(f.replaced) :
            Listed(f.matches[k].content) =>
              /\ ~startsWith(f.replaced[k],
                             Marker(f.matches[k].content) \o <<" [ERROR: ">>)
              /\ Qualifying(FolderOf(f.matches[k].content)) = {} =>
                   f.replaced[k] =
                     <<"[No supported files found in ">>
                     \o SubSeq(f.matches[k].content, 1, Len(f.matches[k].content) - 2)
                     \o <<"]">>
       /\ \A k \in 1..Len(f.results) :
            Listed(f.matches[k].content) => f.results[k].valid
       /\ WildcardProduced(f) =>
            \A file \in Qualifying(f.path) :
              Contains(f.combined, ContentOrNoteSection(f.path, file))

\* the wildcard of a directory with a readable and an unreadable qualifying
\* file has been resolved: the failure stands under its heading, the other
\* file is there with its content
C27_Witness ==
  /\ op = "processLinks"
  /\ outcome = "returned"
  /\ input = Marker(<<".", "/", "*">>)
  /\ Listed(<<".", "/", "*">>)
  /\ Contains(result, FileHeader(<<"u", ".", "txt">>)
                      \o <<"[ERROR: Failed to read file - ">>)
  /\ Contains(result, FileHeader(<<"a", ".", "md">>) \o <<"f">>)

\* resolving the reference c alone succeeds
ResolvesAlone(c) ==
  \/ Truthy(substitutes, c)
  \/ Listed(c)
  \/ /\ ~Truthy(substitutes, c)
     /\ ~IsWildcard(c)
     /\ rootPath # << >>
     /\ startsWith(resolve1(FilePathOf(c)), resolve1(rootPath))
     /\ pathExists(FilePathOf(c))
     /\ extname(FilePathOf(c)) \in { <<".", "md">>, <<".", "txt">>,
                                     <<".", "MD">>, <<".", "TXT">> }
     /\ readFile(FilePathOf(c)).ok

\* validateLinks returned one entry per marker of the text, in the order of
\* the text, valid exactly when the reference resolves alone
EntryPerMarker ==
  (op = "validateLinks" /\ outcome = "returned") =>
    /\ Len(result) = Len(extractLinks(input))
    /\ \A k \in 1..Len(result) :
         /\ result[k].link = extractLinks(input)[k].content
         /\ result[k].valid <=> ResolvesAlone(result[k].link)

\* no link inside a resolved substitute or file is resolved: the calls of
\* processLinks made for the resolved content never reach a link
NothingNestedResolved ==
  op = "validateLinks" =>
    \A n \in 1..Len(stack) :
      stack[n].kind = "processLinks" =>
        /\ stack[n].phase \in {"entry", "loop"}
        /\ stack[n].i = 1

\* C28: validateLinks returns one entry per top-level marker occurrence, in
\* text order, valid if and only if resolving that reference alone succeeds,
\* and does not expand the resolved content: the links inside a resolved
\* substitute or file are neither resolved nor read.
C28_ValidatesTopLevelOnly ==
  EntryPerMarker /\ NothingNestedResolved

\* the characters between the braces, as the claim has them: some
\* characters not containing "}}"
NoDoubleClose(s) == s # << >> /\ ~Contains(s, <<"}", "}">>)

\* the characters between the braces, amended: some characters, none a "}"
NoClose(s) == s # << >> /\ \A k \in 1..Len(s) : s[k] # "}"

\* the positions where a marker that starts at position p can end
MarkerEnds(Inner(_), text, p) ==
  { e \in (p + 4)..Len(text) :
      /\ text[p] = "{" /\ text[p + 1] = "{"
      /\ text[e - 1] = "}" /\ text[e] = "}"
      /\ Inner(SubSeq(text, p + 2, e - 2)) }

\* links is the scan of text: the markers from left to right, each the
\* shortest at its start, none overlapping, none passed over, with the
\* reference trimmed and the offset of the start
IsScan(Inner(_), text, links) ==
  /\ \A k \in 1..Len(links) :
       LET p == links[k].index + 1
           e == links[k].index + Len(links[k].full)
       IN /\ e \in MarkerEnds(Inner, text, p)
          /\ \A e2 \in MarkerEnds(Inner, text, p) : e <= e2
          /\ links[k].full = SubSeq(text, p, e)
          /\ links[k].content = trim(SubSeq(text, p + 2, e - 2))
  /\ \A k \in 1..(Len(links) - 1) :
       links[k].index + Len(links[k].full) <= links[k + 1].index
  /\ \A p \in 1..Len(text) :
       MarkerEnds(Inner, text, p) # {} =>
         \E k \in 1..Len(links) :
           links[k].index + 1 <= p /\ p <= links[k].index + Len(links[k].full)

\* C29 as stated: extractLinks returns, left to right and without overlap,
\* every substring that is "{{", then characters not containing "}}", then
\* "}}", each with its reference trimmed and its start offset; the empty
\* list when there is none; nothing is resolved.
C29_ScanOfClaim ==
  op = "extractLinks" =>
    /\ IsScan(NoDoubleClose, input, result)
    /\ stack = << >> /\ fsLog = << >>

\* C29, amended: extractLinks returns, left to right and without overlap,
\* every substring that is "{{", then one or more characters none of which
\* is "}", then "}}", each with its reference trimmed and its start offset;
\* the empty list when there is none; nothing is resolved.
C29_ScanOfCode ==
  op = "extractLinks" =>
    /\ IsScan(NoClose, input, result)
    /\ stack = << >> /\ fsLog = << >>

\* a text with one marker, not at its start, whose reference is trimmed
C29_Witness ==
  /\ op = "extractLinks"
  /\ input = <<"a", "{", "{", " ", "a", "}", "}">>
  /\ result = << [full |-> <<"{", "{", " ", "a", "}", "}">>,
                  content |-> <<"a">>, index |-> 1] >>

\* in the tree, a node is circular exactly when its reference is among its
\* ancestors, and a circular node has no children
RECURSIVE CircularIffAncestor(_, _)
CircularIffAncestor(tree, ancestors) ==
  \A n \in 1..Len(tree.links) :
    LET node == tree.links[n]
    IN /\ node.type = "circular" <=> node.name \in ancestors
       /\ node.type = "circular" => node.children = "null"
       /\ node.type \in {"substitute", "file"} =>
            CircularIffAncestor(node.children, ancestors \cup {node.name})

\* C30: getDependencyTree terminates for every substitute mapping, cyclic
\* ones included, and marks a link node circular, without children, if and
\* only if its reference occurs on the ancestor chain of the node; the same
\* reference in sibling branches is expanded in each and not marked circular.
C30_TreeTerminatesAndMarksCycles ==
  /\ (op = "getDependencyTree") ~> (op = "getDependencyTree" /\ outcome = "returned")
  /\ []((op = "getDependencyTree" /\ outcome = "returned")
          => CircularIffAncestor(result, {}))

\* the tree of "{{A}}{{A}}" with A = "x{{A}}": both siblings are expanded,
\* and in each the inner A is circular
C30_Witness ==
  /\ op = "getDependencyTree"
  /\ outcome = "returned"
  /\ substitutes = SelfCycle
  /\ input = Marker(A) \o Marker(A)
  /\ Len(result.links) = 2
  /\ \A n \in 1..2 :
       /\ result.links[n].type = "substitute"
       /\ result.links[n].children.links[1].type = "circular"

====
